---------------------------- MODULE Spec2Model ----------------------------
(***************************************************************************)
(* Model of the document OCR service (ocr_service/app): the batch endpoint *)
(* predict of main.py, the field detection and orientation step of         *)
(* bbox_predictor.py, the text extraction of ocr_utils.py and the          *)
(* correction functions of corrections.py.                                 *)
(*                                                                         *)
(* A text is a sequence of one-character strings, so that the correction   *)
(* functions are computed character by character as the code computes      *)
(* them.                                                                   *)
(***************************************************************************)
EXTENDS Integers, Sequences, FiniteSets, TLC

(***************************************************************************)
(* Characters and the str methods the code uses.                           *)
(***************************************************************************)
UpperSeq ==
    << "A", "B", "C", "D", "E", "F", "G", "H", "I", "J", "K", "L", "M",
       "N", "O", "P", "Q", "R", "S", "T", "U", "V", "W", "X", "Y", "Z" >>

LowerSeq ==
    << "a", "b", "c", "d", "e", "f", "g", "h", "i", "j", "k", "l", "m",
       "n", "o", "p", "q", "r", "s", "t", "u", "v", "w", "x", "y", "z" >>

UpperChars == { UpperSeq[k] : k \in 1..26 }

LowerChars == { LowerSeq[k] : k \in 1..26 }

DigitChars == { "0", "1", "2", "3", "4", "5", "6", "7", "8", "9" }

\* str.isspace / the regex class \s
WhiteChars == { " ", "\t", "\n" }

\* str.isalpha on one character
isalpha(c) == c \in UpperChars \/ c \in LowerChars

\* str.isdigit on one character
isdigit(c) == c \in DigitChars

\* str.upper on one character
upperChar(c) ==
    IF c \in LowerChars
    THEN UpperSeq[CHOOSE k \in 1..26 : LowerSeq[k] = c]
    ELSE c

\* str.upper
upper(s) == [k \in 1..Len(s) |-> upperChar(s[k])]

RECURSIVE lstrip(_)
lstrip(s) ==
    IF s # << >> /\ Head(s) \in WhiteChars THEN lstrip(Tail(s)) ELSE s

RECURSIVE rstrip(_)
rstrip(s) ==
    IF s # << >> /\ s[Len(s)] \in WhiteChars
    THEN rstrip(SubSeq(s, 1, Len(s) - 1))
    ELSE s

\* str.strip
strip(s) == rstrip(lstrip(s))

\* re.sub(r'[^...]', '', s): keep the characters of s that satisfy Keep
RECURSIVE FilterChars(_, _)
FilterChars(s, keep) ==
    IF s = << >> THEN << >>
    ELSE IF Head(s) \in keep
         THEN << Head(s) >> \o FilterChars(Tail(s), keep)
         ELSE FilterChars(Tail(s), keep)

\* str.count of one character
RECURSIVE count(_, _)
count(s, c) ==
    IF s = << >> THEN 0
    ELSE (IF Head(s) = c THEN 1 ELSE 0) + count(Tail(s), c)

\* str.split(sep) for a one-character separator: a sequence of texts
RECURSIVE split(_, _)
split(s, sep) ==
    IF \A k \in 1..Len(s) : s[k] # sep THEN << s >>
    ELSE LET p == CHOOSE k \in 1..Len(s) :
                     s[k] = sep /\ \A j \in 1..(k - 1) : s[j] # sep
         IN  << SubSeq(s, 1, p - 1) >> \o split(SubSeq(s, p + 1, Len(s)), sep)

\* str.replace(c, ''): s without the character c
RECURSIVE remove(_, _)
remove(s, c) ==
    IF s = << >> THEN << >>
    ELSE IF Head(s) = c THEN remove(Tail(s), c)
         ELSE << Head(s) >> \o remove(Tail(s), c)

\* In a Python regex, $ matches at the end of the text and also just before a
\* newline that ends the text: the text a pattern anchored by ^...$ has to
\* cover.
BeforeDollar(s) ==
    IF s # << >> /\ s[Len(s)] = "\n" THEN SubSeq(s, 1, Len(s) - 1) ELSE s

AllIn(s, from, to, class) == \A k \in from..to : s[k] \in class

(***************************************************************************)
(* corrections.py                                                          *)
(***************************************************************************)
\* NUMERIC_CORRECTIONS: letters commonly read for digits
NUMERIC_CORRECTIONS ==
    [c \in {"O", "I", "Z", "A", "S", "B", "G"} |->
        CASE c = "O" -> "0" [] c = "I" -> "1" [] c = "Z" -> "2"
          [] c = "A" -> "4" [] c = "S" -> "5" [] c = "B" -> "8"
          [] c = "G" -> "6"]

\* ALPHA_CORRECTIONS = {v: k for k, v in NUMERIC_CORRECTIONS.items() if k != 'I'}
ALPHA_CORRECTIONS ==
    [d \in { NUMERIC_CORRECTIONS[c] : c \in (DOMAIN NUMERIC_CORRECTIONS) \ {"I"} } |->
        CHOOSE c \in (DOMAIN NUMERIC_CORRECTIONS) \ {"I"} : NUMERIC_CORRECTIONS[c] = d]

\* alphaCorrect with the pair I/1 kept in the table: '1' becomes 'I'
alphaCorrect_with_I(c) ==
    IF c = "1" THEN "I"
    ELSE IF isdigit(c) /\ c \in DOMAIN ALPHA_CORRECTIONS THEN ALPHA_CORRECTIONS[c]
    ELSE c

\* a digit where a letter is expected
alphaCorrect(c) ==
    IF isdigit(c) /\ c \in DOMAIN ALPHA_CORRECTIONS THEN ALPHA_CORRECTIONS[c] ELSE c

\* a letter where a digit is expected
numericCorrect(c) ==
    IF isalpha(c) /\ c \in DOMAIN NUMERIC_CORRECTIONS THEN NUMERIC_CORRECTIONS[c] ELSE c

\* the loops "for i in range(...)" of the positional correctors: the (1-based)
\* positions in alphas are expected to hold letters, those in digits digits
correctPositions(s, alphas, digits) ==
    [k \in 1..Len(s) |->
        IF k \in alphas THEN alphaCorrect(s[k])
        ELSE IF k \in digits THEN numericCorrect(s[k])
        ELSE s[k]]

clean_id_text(text) ==
    FilterChars(upper(text), UpperChars \cup DigitChars \cup {"$", "/"})

\* re.sub(r'\s+', ' ', s): every run of white space becomes one space
RECURSIVE collapseSpaces(_)
collapseSpaces(s) ==
    IF s = << >> THEN << >>
    ELSE IF Head(s) \in WhiteChars
         THEN << " " >> \o collapseSpaces(lstrip(s))
         ELSE << Head(s) >> \o collapseSpaces(Tail(s))

clean_name_field(text) ==
    strip(collapseSpaces(
        FilterChars(text, UpperChars \cup LowerChars \cup WhiteChars)))

\* ^\d{2}/\d{2}/\d{4}$ on the stripped text
is_valid_date_format(date_string) ==
    LET s == BeforeDollar(strip(date_string))
    IN  /\ Len(s) = 10
        /\ AllIn(s, 1, 2, DigitChars) /\ s[3] = "/"
        /\ AllIn(s, 4, 5, DigitChars) /\ s[6] = "/"
        /\ AllIn(s, 7, 10, DigitChars)

\* ^[A-Z][0-9]{7}$
is_valid_passport_format(passport_num) ==
    LET s == BeforeDollar(passport_num)
    IN  /\ Len(s) = 8
        /\ s[1] \in UpperChars
        /\ AllIn(s, 2, 8, DigitChars)

\* "if len(part) == n and part.startswith(c): part = to + part[1]": the
\* replacement keeps the second character only
prefixFix(part, n, c, to) ==
    IF Len(part) = n /\ part[1] = c THEN << to, part[2] >> ELSE part

monthFix(part) ==
    IF Len(part) = 2 /\ part[1] = "4" /\ part[2] \in {"0", "1", "2"}
    THEN << "1", part[2] >>
    ELSE part

correct_date_string(date_str) ==
    IF count(date_str, "/") # 2 THEN date_str
    ELSE LET parts     == split(strip(date_str), "/")
             day_str   == prefixFix(prefixFix(prefixFix(parts[1], 2, "4", "1"),
                                              2, "9", "2"), 2, "6", "0")
             month_str == monthFix(parts[2])
             year_str  == prefixFix(prefixFix(prefixFix(parts[3], 4, "4", "1"),
                                              4, "7", "1"), 4, "9", "2")
         IN  day_str \o << "/" >> \o month_str \o << "/" >> \o year_str

\* apply_pan_corrections with the last position taken for a digit
apply_pan_corrections_last_digit(pan_number) ==
    IF Len(pan_number) = 10
    THEN correctPositions(pan_number, 1..5, 6..10)
    ELSE pan_number

apply_pan_corrections(pan_number) ==
    IF Len(pan_number) = 10
    THEN correctPositions(pan_number, (1..5) \cup {10}, 6..9)
    ELSE pan_number

apply_passport_corrections(raw_text) ==
    LET temp_text == strip(raw_text)
        cleaned   == clean_id_text(temp_text)
        cleaned_text ==
            IF cleaned # << >> /\ cleaned[1] = "$"
            THEN << "S" >> \o Tail(cleaned)
            ELSE cleaned
    IN  IF Len(cleaned_text) = 8
        THEN correctPositions(cleaned_text, {1}, 2..8)
        ELSE cleaned_text

\* correct_and_reformat_voter_id with the separators inserted whether or not
\* the text had one
correct_and_reformat_voter_id_always_grouped(voter_id) ==
    LET temp_id == remove(voter_id, "/")
        corrected_id ==
            IF Len(temp_id) = 10 THEN correctPositions(temp_id, 1..3, 4..10)
            ELSE correctPositions(temp_id, 1..2, 3..13)
    IN  IF Len(temp_id) \notin {10, 13} THEN voter_id
        ELSE IF Len(corrected_id) = 13
             THEN SubSeq(corrected_id, 1, 2) \o << "/" >>
                  \o SubSeq(corrected_id, 3, 4) \o << "/" >>
                  \o SubSeq(corrected_id, 5, 7) \o << "/" >>
                  \o SubSeq(corrected_id, 8, 13)
        ELSE SubSeq(corrected_id, 1, 3) \o << "/" >> \o SubSeq(corrected_id, 4, 10)

correct_and_reformat_voter_id(voter_id) ==
    LET temp_id == remove(voter_id, "/")
        corrected_id ==
            IF Len(temp_id) = 10 THEN correctPositions(temp_id, 1..3, 4..10)
            ELSE correctPositions(temp_id, 1..2, 3..13)
        has_separator == \E k \in 1..Len(voter_id) : voter_id[k] = "/"
    IN  IF Len(temp_id) \notin {10, 13} THEN voter_id
        ELSE IF has_separator /\ Len(corrected_id) = 13
             THEN SubSeq(corrected_id, 1, 2) \o << "/" >>
                  \o SubSeq(corrected_id, 3, 4) \o << "/" >>
                  \o SubSeq(corrected_id, 5, 7) \o << "/" >>
                  \o SubSeq(corrected_id, 8, 13)
        ELSE IF has_separator /\ Len(corrected_id) = 10
             THEN SubSeq(corrected_id, 1, 3) \o << "/" >>
                  \o SubSeq(corrected_id, 4, 10)
        ELSE corrected_id

(***************************************************************************)
(* What the collaborators may answer.  The classifier, the detection       *)
(* models, the image files and the OCR engine are outside the repository:  *)
(* each call draws its answer from a small set.                            *)
(***************************************************************************)
\* the longest batch of uploaded files
MaxFiles == 2

\* the boxes the detection models return over one batch
MaxBoxes == 2

FileNames == << "a.jpg", "b.jpg", "c.jpg", "d.jpg" >>

\* texts the OCR engine may read in a date region
DateTexts ==
    { << >>,
      << "4", "1", "/", "0", "1", "/", "1", "9", "9", "0" >>,
      << "0", "2", "/", "0", "2", "/", "7", "9", "9", "5", "\n" >> }

\* texts the OCR engine may read in a name region
NameTexts == { << >>, << "J", "o", "D", "o", "e", "1", "\n" >> }

\* texts the OCR engine may read in a gender region
GenderTexts == { << >>, << "F" >> }

\* texts the OCR engine may read in the PAN region
PanTexts ==
    { << >>,
      << "A", "8", "C", "D", "E", "I", "2", "3", "4", "F" >>,
      << "A", "B", "C", "D", "E", "1", "2", "3", "4", "1" >> }

\* texts the OCR engine may read in the passport number region
PassportTexts ==
    { << >>,
      << "$", "I", "2", "3", "4", "5", "6", "7", "\n" >>,
      << "A", "1", "2", "3" >> }

\* texts the OCR engine may read in the voter ID region
VoterTexts ==
    { << >>,
      << "A", "8", "C", "/", "I", "2", "3", "4", "5", "6", "7" >>,
      << "A", "B", "/", "1", "2", "/", "3", "4", "5", "/", "6", "7", "8", "9", "0", "1" >>,
      << "A", "B", "1", "2" >> }

\* the "conf" column image_to_data may return: -1 marks a token without
\* confidence
ConfColumns == { << -1 >>, << 40 >>, << 90, -1, 60 >> }

\* height against width of the image read from the upload
Shapes == { "tall", "wide", "square" }

(***************************************************************************)
(* classifier.py                                                           *)
(***************************************************************************)
labels == { "pan", "passport", "voterid_new", "voterid_old" }

\* a label outside the classifier's list
UnlistedLabel == "aadhaar"

voterid_types == { "voterid_new", "voterid_old" }

(***************************************************************************)
(* bbox_predictor.py                                                       *)
(***************************************************************************)
\* YOLO_FIELD_MAPPING of the passport model: class name -> field name
PassportMapping ==
    [c \in {"DOB", "ExpiryDate", "Surname", "gender", "name", "passport number"} |->
        CASE c = "DOB" -> "dob"
          [] c = "ExpiryDate" -> "expiry"
          [] c = "Surname" -> "surname"
          [] c = "gender" -> "gender"
          [] c = "name" -> "name"
          [] c = "passport number" -> "passport_number"]

\* YOLO_FIELD_MAPPING.get(raw_class_name, raw_class_name)
YOLO_FIELD_MAPPING(dt, raw_class_name) ==
    IF dt = "passport" /\ raw_class_name \in DOMAIN PassportMapping
    THEN PassportMapping[raw_class_name]
    ELSE raw_class_name

\* the class names a document type's detection model knows
ClassNames(dt) ==
    CASE dt = "passport" -> DOMAIN PassportMapping
      [] dt = "pan" -> {"dob", "father", "name", "pan"}
      [] dt \in voterid_types -> {"date", "gender", "name", "voter_id"}
      [] OTHER -> {"name"}

RECURSIVE SumSeq(_)
SumSeq(s) == IF s = << >> THEN 0 ELSE Head(s) + SumSeq(Tail(s))

\* A confidence score is the fraction << numerator, denominator >>.
Zero == << 0, 1 >>

Greater(a, b) == a[1] * b[2] > b[1] * a[2]

\* get_ocr_confidence: the mean of the confidences that are not -1, 0 when
\* there is none, 0 when the call raises
get_ocr_confidence(engine, column) ==
    IF engine # "installed" THEN Zero
    ELSE LET confs == SelectSeq(column, LAMBDA c : c # -1)
         IN  IF confs = << >> THEN Zero ELSE << SumSeq(confs), Len(confs) >>

\* the baseline rotation by 90 degrees
NeedsRotate90(dt, shape) ==
    \/ dt \in {"passport", "pan"} /\ shape = "tall"
    \/ dt \in voterid_types /\ shape = "wide"

\* NeedsRotate180 with a tie rotating too: score_180 >= score_0
NeedsRotate180_or_tie(s0, s180) == ~Greater(s0, s180)

\* "if score_180 > score_0"
NeedsRotate180(s0, s180) == Greater(s180, s0)

\* process_cropped_image: the path of the saved crop, or the placeholder
\* (a path of no file) for an empty crop
process_cropped_image(zero_area) ==
    IF zero_area THEN "placeholder" ELSE "crop"

(***************************************************************************)
(* ocr_utils.py                                                            *)
(***************************************************************************)
\* the raw texts image_to_string may return for a field
EngineTexts(dt, field) ==
    CASE field \in {"dob", "expiry", "date"} -> DateTexts
      [] field \in {"name", "surname", "father"} -> NameTexts
      [] field = "gender" -> GenderTexts
      [] field = "pan" -> PanTexts
      [] field = "passport_number" -> PassportTexts
      [] field = "voter_id" -> VoterTexts
      [] OTHER -> { << >> }

\* re.sub(r'(?<=[a-z])(?=[A-Z])', ' ', text)
RECURSIVE splitCamel(_)
splitCamel(s) ==
    IF Len(s) < 2 THEN s
    ELSE IF s[1] \in LowerChars /\ s[2] \in UpperChars
         THEN << s[1], " " >> \o splitCamel(Tail(s))
         ELSE << s[1] >> \o splitCamel(Tail(s))

\* whether _extract_text_from_single_image reads the crop as it is
UsesRawImage(dt, skip_preprocessing) ==
    dt \in voterid_types \/ skip_preprocessing

\* step 4 of _extract_text_from_single_image, on the engine's text
postprocess(dt, field, text) ==
    strip(IF dt \in voterid_types /\ field = "name" THEN splitCamel(text) ELSE text)

\* _extract_text_from_single_image: every outcome of one call, a returned
\* text or a raised exception
extract_text(engine, path, dt, field, skip_preprocessing) ==
    IF ~UsesRawImage(dt, skip_preprocessing) /\ path = "placeholder"
    THEN \* preprocess_image: cv2.imread gives None
         { [raise |-> [type |-> "ValueError", message |-> "Failed to load image"]] }
    ELSE IF path = "placeholder"
    THEN \* Image.open raises FileNotFoundError, which is caught
         { [text |-> << >>] }
    ELSE IF engine # "installed"
    THEN \* pytesseract raises TesseractNotFoundError, which is not caught
         { [raise |-> [type |-> "TesseractNotFoundError",
                       message |-> "tesseract is not installed"]] }
    ELSE { [text |-> postprocess(dt, field, t)] : t \in EngineTexts(dt, field) }

Raises(outcome) == "raise" \in DOMAIN outcome

(***************************************************************************)
(* main.py: the dictionaries and the records of the response               *)
(***************************************************************************)
\* an empty dict
EmptyDict == [k \in {} |-> << >>]

\* d[k] = v
Put(d, k, v) == [f \in (DOMAIN d) \cup {k} |-> IF f = k THEN v ELSE d[f]]

\* dict.get(k, '')
Get(d, k) == IF k \in DOMAIN d THEN d[k] ELSE << >>

\* del d[k]
Del(d, k) == [f \in (DOMAIN d) \ {k} |-> d[f]]

pan_fields == << "dob", "father", "name", "pan" >>

passport_fields == << "dob", "expiry", "surname", "gender", "name", "passport_number" >>

voterid_fields == << "date", "gender", "name", "voter_id" >>

\* the field list the branch of a document type walks through
FieldsOf(dt) ==
    CASE dt = "pan" -> pan_fields
      [] dt = "passport" -> passport_fields
      [] dt \in voterid_types -> voterid_fields
      [] OTHER -> << >>

\* create_error_response: ocr_results is left out when it is empty
create_error_response(filename, message, ocr) ==
    IF ocr # EmptyDict
    THEN [filename |-> filename, document_type |-> "unknown",
          message |-> message, ocr_results |-> ocr]
    ELSE [filename |-> filename, document_type |-> "unknown", message |-> message]

\* the record of "except Exception"
unexpected_error(filename, e) ==
    [filename |-> filename, document_type |-> "unknown", error |-> e]

\* the record of a document that passed its final check
success_record(filename, dt, ocr) ==
    [filename |-> filename, document_type |-> dt, ocr_results |-> ocr]

\* the record of the last else branch
not_implemented(filename, dt) ==
    [filename |-> filename, document_type |-> dt,
     message |-> "Handling for this document type is not yet implemented."]

\* the record an exception raised inside the try block ends in: a ValueError
\* gives its message, any other exception the record of "except Exception"
exception_record(filename, e) ==
    IF e.type = "ValueError"
    THEN create_error_response(filename, e.message, EmptyDict)
    ELSE unexpected_error(filename, e.message)

\* the correction applied to a field's text inside the field loop
correct_field(dt, field, text) ==
    CASE dt = "pan" /\ field = "dob" -> correct_date_string(text)
      [] dt = "passport" /\ field \in {"dob", "expiry"} -> correct_date_string(text)
      [] dt = "passport" /\ field = "passport_number" -> apply_passport_corrections(text)
      [] dt \in voterid_types /\ field = "date" -> correct_date_string(text)
      [] OTHER -> text

\* attempt1_is_valid with the format checks of the passport branch left out:
\* only an empty text is retried
attempt1_is_valid_empty_only(dt, field, text1) ==
    IF dt \in {"pan", "passport"} THEN strip(text1) # << >> ELSE TRUE

\* attempt1_is_valid with the PAN branch checking the format of its fields as
\* the passport branch does
attempt1_is_valid_pan_format(dt, field, text1) ==
    IF dt = "pan"
    THEN /\ strip(text1) # << >>
         /\ field = "dob" => is_valid_date_format(correct_date_string(text1))
         /\ field = "pan" => Len(apply_pan_corrections(clean_id_text(text1))) = 10
                             /\ apply_pan_corrections(clean_id_text(text1))[10] \in UpperChars
    ELSE TRUE

\* attempt1_is_valid with the voter ID branch retrying an empty text as the PAN
\* branch does
attempt1_is_valid_voter_retry(dt, field, text1) ==
    IF dt \in voterid_types THEN strip(text1) # << >> ELSE TRUE

\* whether the first attempt's text is kept (is_valid of the passport branch,
\* "text.strip()" of the PAN branch; the voter ID branch never retries)
attempt1_is_valid(dt, field, text1) ==
    CASE dt = "pan" -> strip(text1) # << >>
      [] dt = "passport" ->
            IF strip(text1) = << >> THEN FALSE
            ELSE IF field \in {"dob", "expiry"}
                 THEN is_valid_date_format(correct_field(dt, field, text1))
            ELSE IF field = "passport_number"
                 THEN is_valid_passport_format(correct_field(dt, field, text1))
            ELSE TRUE
      [] OTHER -> TRUE

\* 'F' in text.upper()
normalize_gender(text) ==
    IF \E k \in 1..Len(text) : upperChar(text[k]) = "F"
    THEN << "F", "e", "m", "a", "l", "e" >>
    ELSE << "M", "a", "l", "e" >>

\* ^[A-Z]{5}[0-9]{4}[A-Z]$
is_valid_pan_format(pan) ==
    LET s == BeforeDollar(pan)
    IN  /\ Len(s) = 10
        /\ AllIn(s, 1, 5, UpperChars)
        /\ AllIn(s, 6, 9, DigitChars)
        /\ s[10] \in UpperChars

\* the three layouts of the voter ID branch's final check
is_valid_voterid(voter_id) ==
    LET s == BeforeDollar(voter_id)
    IN  \/ /\ Len(s) = 11
           /\ AllIn(s, 1, 3, UpperChars) /\ s[4] = "/"
           /\ AllIn(s, 5, 11, DigitChars)
        \/ /\ Len(s) = 16
           /\ AllIn(s, 1, 2, UpperChars) /\ s[3] = "/"
           /\ AllIn(s, 4, 5, DigitChars) /\ s[6] = "/"
           /\ AllIn(s, 7, 9, DigitChars) /\ s[10] = "/"
           /\ AllIn(s, 11, 16, DigitChars)
        \/ /\ Len(s) = 10
           /\ AllIn(s, 1, 3, UpperChars)
           /\ AllIn(s, 4, 10, DigitChars)

\* the PAN branch after its field loop: the corrected field results
pan_postprocess(ocr) ==
    [f \in DOMAIN ocr |->
        CASE f = "pan" -> apply_pan_corrections(clean_id_text(ocr[f]))
          [] f \in {"name", "father"} -> clean_name_field(ocr[f])
          [] OTHER -> ocr[f]]

\* " ".join(part for part in [name_part, surname_part] if part)
join_names(name_part, surname_part) ==
    IF name_part # << >> /\ surname_part # << >>
    THEN name_part \o << " " >> \o surname_part
    ELSE name_part \o surname_part

\* the passport branch after its field loop
passport_postprocess(ocr) ==
    LET full == join_names(clean_name_field(Get(ocr, "name")),
                           clean_name_field(Get(ocr, "surname")))
        ocr1 == Del(Put(ocr, "name", full), "surname")
    IN  [f \in DOMAIN ocr1 |->
            IF f = "gender" THEN normalize_gender(ocr1[f]) ELSE ocr1[f]]

\* the voter ID branch after its field loop, up to the check for a missing
\* voter ID
voterid_postprocess(ocr) ==
    [f \in DOMAIN ocr |->
        CASE f = "name" -> clean_name_field(ocr[f])
          [] f = "gender" -> normalize_gender(ocr[f])
          [] OTHER -> ocr[f]]

\* "'voter_id' not in ocr_results or not ocr_results.get('voter_id', '').strip()"
voter_id_missing(ocr) ==
    "voter_id" \notin DOMAIN ocr \/ strip(Get(ocr, "voter_id")) = << >>

\* ocr_results as the branch of the document type leaves it after its field
\* loop
final_results(dt, ocr) ==
    CASE dt = "pan" -> pan_postprocess(ocr)
      [] dt = "passport" -> passport_postprocess(ocr)
      [] dt \in voterid_types ->
            LET res == voterid_postprocess(ocr)
            IN  IF voter_id_missing(res) THEN res
                ELSE Put(res, "voter_id",
                         correct_and_reformat_voter_id(clean_id_text(res["voter_id"])))
      [] OTHER -> ocr

\* final_check looking only at the length of the identifier
final_check_length_only(dt, res) ==
    CASE dt = "pan" -> Len(Get(res, "pan")) = 10
      [] dt = "passport" -> Len(Get(res, "passport_number")) = 8
      [] dt \in voterid_types -> Len(Get(res, "voter_id")) \in {10, 11, 16}
      [] OTHER -> FALSE

\* the final validation check of the document type, on the final field results
final_check(dt, res) ==
    CASE dt = "pan" -> is_valid_pan_format(Get(res, "pan"))
      [] dt = "passport" -> is_valid_passport_format(Get(res, "passport_number"))
      [] dt \in voterid_types ->
            ~voter_id_missing(res) /\ is_valid_voterid(res["voter_id"])
      [] OTHER -> FALSE

final_message(dt, res) ==
    CASE dt = "pan" -> "Document type could not be verified (invalid PAN format)."
      [] dt = "passport" -> "Invalid Passport Number format after all checks."
      [] dt \in voterid_types ->
            IF voter_id_missing(res) THEN "Voter ID number not found."
            ELSE "Invalid Voter ID format."
      [] OTHER -> ""

\* the record a document ends in once its field loop is over
final_record(filename, dt, ocr) ==
    LET res == final_results(dt, ocr)
    IN  IF dt \notin labels THEN not_implemented(filename, dt)
        ELSE IF final_check(dt, res) THEN success_record(filename, dt, res)
        ELSE create_error_response(filename, final_message(dt, res), res)

(***************************************************************************)
(* The state of one call of predict.                                       *)
(***************************************************************************)
VARIABLES
    files,                \* the uploaded files' names, in the request's order
    tesseract,            \* "installed" or "missing": the OCR engine
    pc,                   \* where predict stands
    idx,                  \* the position in files of the document at work
    results,              \* the records appended so far
    boxes_used,           \* the boxes detected so far in this batch
    doc_type,             \* the classifier's label of the document
    img_rotation,         \* run_bbox_model: degrees the image was rotated by
    score_0, score_180,   \* run_bbox_model: the two confidence scores
    cropped_image_paths,  \* field name -> "crop" or "placeholder"
    ocr_results,          \* field name -> text
    fi,                   \* the position in the field list of the field at work
    fstate,               \* INIT, ATTEMPT1, DECIDE, ATTEMPT2 or ACCEPT
    attempts,             \* the extraction attempts made for the field at work
    text_attempt1,        \* the first attempt's text
    text_attempt2,        \* the second attempt's text
    skip_preprocessing,   \* the flag the last call of extract_text was given
    is_valid,             \* the verdict on the first attempt
    fn,                   \* corrections.py called on its own: the function
    arg,                  \* the text it is first called with
    ret,                  \* the text the last call returned
    calls                 \* the calls made, each on the result of the one before

batch == << files, tesseract >>
call  == << fn, arg, ret, calls >>
doc   == << doc_type, cropped_image_paths, ocr_results >>
orient == << img_rotation, score_0, score_180 >>
fld   == << fi, fstate, attempts, text_attempt1, text_attempt2,
            skip_preprocessing, is_valid >>
vars  == << files, tesseract, pc, idx, results, boxes_used, doc_type,
            img_rotation, score_0, score_180, cropped_image_paths, ocr_results,
            fi, fstate, attempts, text_attempt1, text_attempt2,
            skip_preprocessing, is_valid, fn, arg, ret, calls >>

\* the locals of one iteration of "for file in files" before it starts
FreshDoc ==
    /\ doc_type = "" /\ cropped_image_paths = EmptyDict /\ ocr_results = EmptyDict
    /\ img_rotation = 0 /\ score_0 = Zero /\ score_180 = Zero

FreshField ==
    /\ fstate = "INIT" /\ attempts = 0
    /\ text_attempt1 = << >> /\ text_attempt2 = << >>
    /\ skip_preprocessing = FALSE /\ is_valid = TRUE

\* predict runs, and no function of corrections.py is called on its own
NoCall == fn = "" /\ arg = << >> /\ ret = << >> /\ calls = 0

Init ==
    /\ NoCall
    /\ files \in { SubSeq(FileNames, 1, n) : n \in 1..MaxFiles }
    /\ tesseract \in { "installed", "missing" }
    /\ pc = "save" /\ idx = 1 /\ results = << >> /\ boxes_used = 0
    /\ fi = 1
    /\ FreshDoc /\ FreshField

\* an exception with str(e)
Raise(type, message) == [type |-> type, message |-> message]

filename == files[idx]

fields == FieldsOf(doc_type)

field == fields[fi]

\* "results.append(...)" followed by the next iteration of the file loop; the
\* locals of the field at work are dead from here on
Append_and_continue(record) ==
    /\ results' = Append(results, record)
    /\ idx' = idx + 1
    /\ pc' = "save"
    /\ fstate' = "INIT" /\ attempts' = 0
    /\ text_attempt1' = << >> /\ text_attempt2' = << >>
    /\ skip_preprocessing' = FALSE /\ is_valid' = TRUE
    /\ UNCHANGED fi

\* an exception raised inside the try block
Except(e) == Append_and_continue(exception_record(filename, e))

(***************************************************************************)
(* predict, step by step                                                   *)
(***************************************************************************)
\* main.py 32-34, outside the try block: the upload is written to uploads/,
\* or open() raises and predict ends without a response body
SaveUpload ==
    /\ UNCHANGED call
    /\ pc = "save" /\ idx <= Len(files)
    /\ \E saved \in BOOLEAN :
          pc' = IF saved THEN "crop" ELSE "raised"
    /\ doc_type' = "" /\ cropped_image_paths' = EmptyDict /\ ocr_results' = EmptyDict
    /\ fi' = 1 /\ fstate' = "INIT" /\ attempts' = 0
    /\ text_attempt1' = << >> /\ text_attempt2' = << >>
    /\ skip_preprocessing' = FALSE /\ is_valid' = TRUE
    /\ UNCHANGED << batch, idx, results, boxes_used, orient >>

\* stage 1, run_pre_classification_cropping
Crop ==
    /\ UNCHANGED call
    /\ pc = "crop"
    /\ \/ pc' = "classify" /\ UNCHANGED << idx, results, fld >>
       \/ Except(Raise("FileNotFoundError", "Universal cropping model not found"))
       \/ Except(Raise("ValueError", "Failed to load image for cropping"))
    /\ UNCHANGED << batch, boxes_used, doc, orient >>

\* stage 2, classify_document: one of the labels, or an exception of the
\* image loader
Classify(answers) ==
    /\ UNCHANGED call
    /\ pc = "classify"
    /\ \/ \E label \in answers :
             doc_type' = label /\ pc' = "orient" /\ UNCHANGED << idx, results, fld >>
       \/ /\ Except(Raise("Exception", "cannot load the image"))
          /\ UNCHANGED doc_type
    /\ UNCHANGED << batch, boxes_used, cropped_image_paths, ocr_results, orient >>

ClassifyDocument == Classify(labels)

\* stage 3, run_bbox_model up to "cv2.imwrite(img_path, img_cv)": the model
\* file and the image are loaded and the orientation is settled
Orientation ==
    /\ UNCHANGED call
    /\ pc = "orient"
    /\ \/ \E shape \in Shapes, c0 \in ConfColumns, c180 \in ConfColumns :
             LET s0   == get_ocr_confidence(tesseract, c0)
                 s180 == get_ocr_confidence(tesseract, c180)
             IN  /\ score_0' = s0
                 /\ score_180' = s180
                 /\ img_rotation' =
                       (IF NeedsRotate90(doc_type, shape) THEN 90 ELSE 0)
                       + (IF NeedsRotate180(s0, s180) THEN 180 ELSE 0)
                 /\ pc' = "detect"
                 /\ UNCHANGED << idx, results, fld >>
       \/ /\ Except(Raise("FileNotFoundError", "Field detection model not found"))
          /\ UNCHANGED orient
       \/ /\ Except(Raise("ValueError", "Failed to load pre-cropped image"))
          /\ UNCHANGED orient
    /\ UNCHANGED << batch, boxes_used, doc >>

\* the dictionary run_bbox_model returns for the detected boxes: class name
\* -> whether the crop is empty
bbox_to_path(dt, zero_area) ==
    [f \in { YOLO_FIELD_MAPPING(dt, c) : c \in DOMAIN zero_area } |->
        process_cropped_image(
            zero_area[CHOOSE c \in DOMAIN zero_area : YOLO_FIELD_MAPPING(dt, c) = f])]

\* "for field in ...: crop_path = cropped_image_paths.get(field); if not
\* crop_path: continue": the first position from k on of a field that has a
\* region, or the position after the last field
next_with_region(fs, paths, k) ==
    IF \E j \in k..Len(fs) : fs[j] \in DOMAIN paths
    THEN CHOOSE j \in k..Len(fs) :
            /\ fs[j] \in DOMAIN paths
            /\ \A m \in k..(j - 1) : fs[m] \notin DOMAIN paths
    ELSE Len(fs) + 1

\* stage 3, the field detection of run_bbox_model: no box raises ValueError;
\* with boxes, the field loop of the document type starts at its first field
\* that has a region
Detect ==
    /\ UNCHANGED call
    /\ pc = "detect"
    /\ \E classes \in SUBSET ClassNames(doc_type) :
          /\ Cardinality(classes) <= MaxBoxes - boxes_used
          /\ IF classes = {}
             THEN /\ Except(Raise("ValueError", "No bounding boxes for fields detected"))
                  /\ UNCHANGED << cropped_image_paths, boxes_used >>
             ELSE \E zero_area \in [classes -> BOOLEAN] :
                     /\ cropped_image_paths' = bbox_to_path(doc_type, zero_area)
                     /\ boxes_used' = boxes_used + Cardinality(classes)
                     /\ pc' = "fields"
                     /\ fi' = next_with_region(fields, cropped_image_paths', 1)
                     /\ UNCHANGED << idx, results, fstate, attempts, text_attempt1,
                                     text_attempt2, skip_preprocessing, is_valid >>
    /\ img_rotation' = 0 /\ score_0' = Zero /\ score_180' = Zero
    /\ UNCHANGED << batch, doc_type, ocr_results >>

\* the step of the field loop from a stored field to the next field that has a
\* region
NextField ==
    /\ UNCHANGED call
    /\ pc = "fields" /\ fi <= Len(fields)
    /\ fstate = "ACCEPT"
    /\ fi' = next_with_region(fields, cropped_image_paths, fi + 1)
    /\ fstate' = "INIT" /\ attempts' = 0
    /\ text_attempt1' = << >> /\ text_attempt2' = << >>
    /\ skip_preprocessing' = FALSE /\ is_valid' = TRUE
    /\ UNCHANGED << batch, pc, idx, results, boxes_used, doc, orient >>

\* attempt 1: extract_text on the preprocessed crop
Attempt1 ==
    /\ UNCHANGED call
    /\ pc = "fields" /\ fi <= Len(fields)
    /\ fstate = "INIT" /\ field \in DOMAIN cropped_image_paths
    /\ \E outcome \in extract_text(tesseract, cropped_image_paths[field],
                                   doc_type, field, FALSE) :
          IF Raises(outcome)
          THEN Except(outcome.raise)
          ELSE /\ text_attempt1' = outcome.text
               /\ fstate' = "ATTEMPT1"
               /\ attempts' = attempts + 1
               /\ skip_preprocessing' = FALSE
               /\ UNCHANGED << pc, idx, results, fi, text_attempt2, is_valid >>
    /\ UNCHANGED << batch, boxes_used, doc, orient >>

\* the verdict on attempt 1
Decide ==
    /\ UNCHANGED call
    /\ pc = "fields" /\ fstate = "ATTEMPT1"
    /\ is_valid' = attempt1_is_valid(doc_type, field, text_attempt1)
    /\ fstate' = "DECIDE"
    /\ UNCHANGED << batch, pc, idx, results, boxes_used, doc, orient,
                    fi, attempts, text_attempt1, text_attempt2, skip_preprocessing >>

\* attempt 1 is stored
Accept1 ==
    /\ UNCHANGED call
    /\ pc = "fields" /\ fstate = "DECIDE" /\ is_valid
    /\ ocr_results' = Put(ocr_results, field, correct_field(doc_type, field, text_attempt1))
    /\ fstate' = "ACCEPT"
    /\ UNCHANGED << batch, pc, idx, results, boxes_used, doc_type, cropped_image_paths,
                    orient, fi, attempts, text_attempt1, text_attempt2,
                    skip_preprocessing, is_valid >>

\* attempt 2: extract_text on the crop as it is
Attempt2 ==
    /\ UNCHANGED call
    /\ pc = "fields" /\ fstate = "DECIDE" /\ ~is_valid
    /\ \E outcome \in extract_text(tesseract, cropped_image_paths[field],
                                   doc_type, field, TRUE) :
          IF Raises(outcome)
          THEN Except(outcome.raise)
          ELSE /\ text_attempt2' = outcome.text
               /\ fstate' = "ATTEMPT2"
               /\ attempts' = attempts + 1
               /\ skip_preprocessing' = TRUE
               /\ UNCHANGED << pc, idx, results, fi, text_attempt1, is_valid >>
    /\ UNCHANGED << batch, boxes_used, doc, orient >>

\* attempt 2 is stored, whatever it is
Accept2 ==
    /\ UNCHANGED call
    /\ pc = "fields" /\ fstate = "ATTEMPT2"
    /\ ocr_results' = Put(ocr_results, field, correct_field(doc_type, field, text_attempt2))
    /\ fstate' = "ACCEPT"
    /\ UNCHANGED << batch, pc, idx, results, boxes_used, doc_type, cropped_image_paths,
                    orient, fi, attempts, text_attempt1, text_attempt2,
                    skip_preprocessing, is_valid >>

\* after the field loop of pan, passport and the voter IDs: corrections, merge,
\* final check and the document's record
Finish ==
    /\ UNCHANGED call
    /\ pc = "fields" /\ fi > Len(fields) /\ doc_type \in labels
    /\ ocr_results' = final_results(doc_type, ocr_results)
    /\ Append_and_continue(final_record(filename, doc_type, ocr_results))
    /\ UNCHANGED << batch, boxes_used, doc_type, cropped_image_paths, orient >>

\* the last else branch
NotImplemented ==
    /\ UNCHANGED call
    /\ pc = "fields" /\ doc_type \notin labels
    /\ Append_and_continue(not_implemented(filename, doc_type))
    /\ UNCHANGED << batch, boxes_used, doc, orient >>

\* "return {"results": results}"
Return ==
    /\ UNCHANGED call
    /\ pc = "save" /\ idx > Len(files)
    /\ pc' = "returned"
    /\ UNCHANGED << batch, idx, results, boxes_used, doc, orient, fld >>

Next ==
    \/ SaveUpload \/ Crop \/ ClassifyDocument \/ Orientation \/ Detect
    \/ NextField \/ Attempt1 \/ Decide \/ Accept1 \/ Attempt2 \/ Accept2
    \/ Finish \/ Return

Spec == Init /\ [][Next]_vars

\* The same, with a classifier whose label list holds one more label.
ClassifyAnyLabel == Classify(labels \cup { UnlistedLabel })

NextAnyLabel ==
    \/ SaveUpload \/ Crop \/ ClassifyAnyLabel \/ Orientation \/ Detect
    \/ NextField \/ Attempt1 \/ Decide \/ Accept1 \/ Attempt2 \/ Accept2
    \/ Finish \/ NotImplemented \/ Return

SpecAnyLabel == Init /\ [][NextAnyLabel]_vars

(***************************************************************************)
(* corrections.py on its own: a function of the module is called on a      *)
(* text, and then once more on its own result.                             *)
(***************************************************************************)
\* the longest text built freely from a set of characters
MaxLen == 3

\* the characters of a pattern text that are replaced at a time
MaxEdits == 2

\* every text of at most n characters of chars
Strings(chars, n) == UNION { [1..k -> chars] : k \in 0..n }

\* the texts that differ from base in at most n positions, the other character
\* being one of chars
RECURSIVE Perturb(_, _, _)
Perturb(base, chars, n) ==
    IF n = 0 THEN { base }
    ELSE LET less == Perturb(base, chars, n - 1)
         IN  less \cup { [t EXCEPT ![p] = c] :
                            t \in less, p \in 1..Len(base), c \in chars }

\* texts of the accepted layouts, and the two dates of the date heuristic
ValidPan == << "A", "B", "C", "D", "E", "1", "2", "3", "4", "F" >>

ValidPassport == << "A", "1", "2", "3", "4", "5", "6", "7" >>

VoterOld == << "A", "B", "C", "1", "2", "3", "4", "5", "6", "7" >>

VoterOldSep == << "A", "B", "C", "/", "1", "2", "3", "4", "5", "6", "7" >>

VoterNew == << "A", "B", "1", "2", "3", "4", "5", "6", "7", "8", "9", "0", "1" >>

VoterNewSep == << "A", "B", "/", "1", "2", "/", "3", "4", "5", "/", "6", "7", "8", "9", "0", "1" >>

Date41 == << "4", "1", "/", "0", "1", "/", "1", "9", "9", "0" >>

Date7995 == << "0", "2", "/", "0", "2", "/", "7", "9", "9", "5" >>

IdTexts == Strings({ "a", "B", "1", "$", "/", " ", "-" }, MaxLen)

JohnDoe == << "J", "o", "h", "n", " ", " ", " ", "D", "o", "e", "1", "2", "3", "!", "!" >>

NameInputs == { JohnDoe } \cup Strings({ "a", "B", " ", "\n", "1", "!" }, MaxLen)

\* the day, month and year parts of the date texts
DayParts ==
    { << c, d >> : c \in { "4", "9", "6", "0" }, d \in { "1", "4" } }
        \cup { << "4" >>, << "4", "1", "1" >> }

MonthParts ==
    { << "4", d >> : d \in { "0", "2", "3" } } \cup { << "0", "1" >>, << "4" >> }

YearParts ==
    { << c, d, "9", "0" >> : c \in { "4", "7", "9", "1" }, d \in { "9", " " } }
        \cup { << "7", "9" >>, << "4", "7", "9", "9", "0" >> }

\* texts of three parts, bare or inside white space, and texts with another
\* number of '/'
DateInputs ==
    { pre \o d \o << "/" >> \o m \o << "/" >> \o y \o post :
         d \in DayParts, m \in MonthParts, y \in YearParts,
         pre \in { << >>, << " " >> }, post \in { << >>, << "\n" >> } }
      \cup { << >>, << "4", "1", "/", "0", "1" >>, << "4", "/", "1", "/", "1", "/", "1" >> }
      \cup { Date41, Date7995 }

\* the characters put into the texts of the PAN, passport and voter ID layouts
PanChars == { "A", "I", "1", "8", "0", "a" }

PassportChars == { "$", "I", "1", "O", "8", "a", " " }

VoterChars == { "/", "1", "I", "8", "B" }

\* the functions of corrections.py that correct a text
CorrectionFunctions ==
    { "clean_id_text", "clean_name_field", "correct_date_string",
      "apply_pan_corrections", "apply_passport_corrections",
      "correct_and_reformat_voter_id" }

PositionalCorrectors ==
    { "apply_pan_corrections", "apply_passport_corrections",
      "correct_and_reformat_voter_id" }

\* the texts a function is called with
InputsOf(f) ==
    CASE f = "clean_id_text" -> IdTexts
      [] f = "clean_name_field" -> NameInputs
      [] f = "correct_date_string" -> DateInputs
      [] f = "apply_pan_corrections" ->
            Perturb(ValidPan, PanChars, MaxEdits)
              \cup { << >>, << "A", "B", "C", "D", "E", "1", "2", "3", "4" >>,
                     << "4", "8", "C", "D", "E", "1", "2", "3", "4", "F", "5" >> }
      [] f = "apply_passport_corrections" ->
            Perturb(ValidPassport, PassportChars, MaxEdits)
              \cup { << >>, << "$", "I", "2", "3" >>,
                     << "8", "I", "2", "3", "4", "5", "6", "7", "8" >> }
      [] f = "correct_and_reformat_voter_id" ->
            Perturb(VoterOld, VoterChars, MaxEdits)
              \cup Perturb(VoterOldSep, VoterChars, MaxEdits)
              \cup Perturb(VoterNew, VoterChars, MaxEdits)
              \cup Perturb(VoterNewSep, VoterChars, MaxEdits)
              \cup { << >>, << "A", "8", "/", "I" >> }

\* the call f(x)
Apply(f, x) ==
    CASE f = "clean_id_text" -> clean_id_text(x)
      [] f = "clean_name_field" -> clean_name_field(x)
      [] f = "correct_date_string" -> correct_date_string(x)
      [] f = "apply_pan_corrections" -> apply_pan_corrections(x)
      [] f = "apply_passport_corrections" -> apply_passport_corrections(x)
      [] f = "correct_and_reformat_voter_id" -> correct_and_reformat_voter_id(x)

\* predict is not running
NoBatch ==
    /\ files = << >> /\ tesseract = "installed"
    /\ pc = "returned" /\ idx = 1 /\ results = << >> /\ boxes_used = 0
    /\ fi = 1
    /\ FreshDoc /\ FreshField

InitCorrections ==
    /\ NoBatch
    /\ fn \in CorrectionFunctions
    /\ arg \in InputsOf(fn)
    /\ ret = << >>
    /\ calls = 0

\* f(x), and then f(f(x))
Call ==
    /\ calls < 2
    /\ ret' = Apply(fn, IF calls = 0 THEN arg ELSE ret)
    /\ calls' = calls + 1
    /\ UNCHANGED << fn, arg, batch, pc, idx, results, boxes_used, doc, orient, fld >>

NextCorrections == Call

SpecCorrections == InitCorrections /\ [][NextCorrections]_vars

(***************************************************************************)
(* The claims                                                              *)
(***************************************************************************)
\* the record of the document before the one at work is results[idx - 1], and
\* the locals still hold that document's values
DocDone == idx > 1 /\ pc \in { "save", "returned" }

LastRecord == results[idx - 1]

\* the field loop of the document ran to its end
LoopDone == doc_type \in labels /\ fi > Len(fields)

\* the field at work has a region
FieldAtWork ==
    pc = "fields" /\ fi <= Len(fields) /\ field \in DOMAIN cropped_image_paths

IsErrorRecord(r) == r.document_type = "unknown"

IsSuccessRecord(r) == r.document_type \in labels /\ "ocr_results" \in DOMAIN r

\* C1: a field that has a region steps INIT, ATTEMPT1, DECIDE and then ACCEPT,
\* or ATTEMPT2 and then ACCEPT, and is not left before ACCEPT, where it has a
\* stored result; ATTEMPT2 is entered only when attempt 1 failed the
\* acceptance rule.
C1_FieldStep ==
    FieldAtWork =>
        /\ pc' = "fields"
        /\ CASE fstate = "INIT" -> fstate' = "ATTEMPT1" /\ fi' = fi
             [] fstate = "ATTEMPT1" -> fstate' = "DECIDE" /\ fi' = fi
             [] fstate = "DECIDE" ->
                    fstate' = (IF is_valid THEN "ACCEPT" ELSE "ATTEMPT2") /\ fi' = fi
             [] fstate = "ATTEMPT2" -> fstate' = "ACCEPT" /\ fi' = fi
             [] fstate = "ACCEPT" -> fstate' = "INIT" /\ fi' > fi
        /\ fstate' = "ACCEPT" => field \in DOMAIN ocr_results'

\* C1: every field that has a region goes through its attempts to ACCEPT with
\* one stored result, with never more than two attempts.
C1_EveryFieldAccepted ==
    /\ [](attempts <= 2)
    /\ [][C1_FieldStep]_vars

\* the correction of the passport branch
C2_Corrected(f, raw) ==
    IF f \in {"dob", "expiry"} THEN correct_date_string(raw)
    ELSE IF f = "passport_number" THEN apply_passport_corrections(raw)
    ELSE raw

\* attempt 1 of a passport field is invalid
C2_Invalid(f, raw) ==
    \/ raw = << >>
    \/ f \in {"dob", "expiry"} /\ ~is_valid_date_format(correct_date_string(raw))
    \/ f = "passport_number"
         /\ ~is_valid_passport_format(apply_passport_corrections(raw))

\* C2: for a passport field attempt 2 runs exactly when attempt 1 is invalid
\* (empty, or a date or passport number whose corrected text fails its
\* format); it runs with preprocessing skipped, its corrected text is stored
\* whatever it is, and there is no third attempt.
C2_PassportRetry ==
    (doc_type = "passport" /\ pc = "fields" /\ fi <= Len(fields)) =>
        /\ attempts <= 2
        /\ fstate = "ATTEMPT1" => attempts = 1 /\ ~skip_preprocessing
        /\ fstate = "ATTEMPT2" =>
              /\ C2_Invalid(field, text_attempt1)
              /\ attempts = 2 /\ skip_preprocessing
        /\ fstate = "ACCEPT" =>
              IF C2_Invalid(field, text_attempt1)
              THEN /\ attempts = 2
                   /\ ocr_results[field] = C2_Corrected(field, text_attempt2)
              ELSE /\ attempts = 1
                   /\ ocr_results[field] = C2_Corrected(field, text_attempt1)

\* C2: a date whose first text is not empty but fails the format was read a
\* second time, and the second text, also failing the format, is stored
C2_Witness ==
    /\ doc_type = "passport" /\ pc = "fields" /\ fi <= Len(fields)
    /\ field = "dob" /\ fstate = "ACCEPT" /\ attempts = 2
    /\ text_attempt1 # << >>
    /\ ~is_valid_date_format(ocr_results["dob"])

\* C3: for a PAN field attempt 2 runs exactly when attempt 1's text is empty; a
\* text that is not empty is stored whatever its format; attempt 2 runs with
\* preprocessing skipped and its text is stored whatever it is.
C3_PanRetry ==
    (doc_type = "pan" /\ pc = "fields" /\ fi <= Len(fields)) =>
        /\ attempts <= 2
        /\ fstate = "ATTEMPT1" => attempts = 1 /\ ~skip_preprocessing
        /\ fstate = "ATTEMPT2" =>
              /\ strip(text_attempt1) = << >>
              /\ attempts = 2 /\ skip_preprocessing
        /\ fstate = "ACCEPT" =>
              LET kept == IF strip(text_attempt1) = << >>
                          THEN text_attempt2 ELSE text_attempt1
              IN  /\ attempts = (IF strip(text_attempt1) = << >> THEN 2 ELSE 1)
                  /\ ocr_results[field] =
                        (IF field = "dob" THEN correct_date_string(kept) ELSE kept)

\* C3: a PAN number that is not empty and that no correction makes valid is
\* stored after one attempt
C3_Witness ==
    /\ doc_type = "pan" /\ pc = "fields" /\ fi <= Len(fields)
    /\ field = "pan" /\ fstate = "ACCEPT" /\ attempts = 1
    /\ ocr_results["pan"] # << >>
    /\ ~is_valid_pan_format(apply_pan_corrections(clean_id_text(ocr_results["pan"])))

\* C4: in a voter ID document no field is read twice: a field's single text is
\* stored whatever it is; and a document whose voter_id is missing or empty
\* ends in an error record, never in a success record.
C4_VoterSingleAttempt ==
    doc_type \in voterid_types =>
        /\ attempts <= 1
        /\ fstate # "ATTEMPT2"
        /\ ~skip_preprocessing
        /\ (pc = "fields" /\ fstate \in {"ATTEMPT1", "DECIDE", "ACCEPT"}) => attempts = 1
        /\ (pc = "fields" /\ fstate = "DECIDE") => is_valid
        /\ (pc = "fields" /\ fstate = "ACCEPT") =>
              ocr_results[field] =
                 (IF field = "date" THEN correct_date_string(text_attempt1)
                  ELSE text_attempt1)
        /\ (DocDone /\ ("voter_id" \notin DOMAIN ocr_results
                        \/ ocr_results["voter_id"] = << >>)) =>
              IsErrorRecord(LastRecord) /\ ~IsSuccessRecord(LastRecord)

\* C4: the voter_id region was read once, the text was empty, and the document
\* ended in an error record
C4_Witness ==
    /\ doc_type \in voterid_types /\ DocDone /\ LoopDone
    /\ "voter_id" \in DOMAIN ocr_results
    /\ ocr_results["voter_id"] = << >>
    /\ IsErrorRecord(LastRecord)

\* the structural check of a document type on its identifier
C5_StructuralCheck(dt, res) ==
    CASE dt = "pan" -> is_valid_pan_format(Get(res, "pan"))
      [] dt = "passport" -> is_valid_passport_format(Get(res, "passport_number"))
      [] OTHER -> is_valid_voterid(Get(res, "voter_id"))

\* C5: a success record holds an identifier that passes the structural check of
\* its type; a document whose final identifier fails it ends in an error
\* record with a message, which carries the field results, and not in an
\* exception.
C5_FinalCheck ==
    /\ \A k \in 1..Len(results) :
          IsSuccessRecord(results[k]) =>
              C5_StructuralCheck(results[k].document_type, results[k].ocr_results)
    /\ (DocDone /\ LoopDone) =>
          IF C5_StructuralCheck(doc_type, ocr_results)
          THEN LastRecord = success_record(files[idx - 1], doc_type, ocr_results)
          ELSE /\ IsErrorRecord(LastRecord)
               /\ DOMAIN LastRecord = {"filename", "document_type", "message", "ocr_results"}
               /\ LastRecord.ocr_results = ocr_results

\* C5: a PAN document whose PAN number fails the check ended in an error record
\* that carries the name read
C5_Witness ==
    /\ DocDone /\ LoopDone /\ doc_type = "pan"
    /\ "pan" \in DOMAIN ocr_results
    /\ ~is_valid_pan_format(ocr_results["pan"])
    /\ IsErrorRecord(LastRecord)
    /\ "ocr_results" \in DOMAIN LastRecord
    /\ "name" \in DOMAIN LastRecord.ocr_results

\* C6: whatever fails in a document, saving the upload included, the batch
\* ends with one record per file, in the files' order.
C6_OneRecordPerDocument ==
    /\ pc # "raised"
    /\ pc = "returned" =>
          /\ Len(results) = Len(files)
          /\ \A k \in 1..Len(files) : results[k].filename = files[k]

\* C7: with the OCR engine missing, both confidence scores are 0 and the image
\* is not turned by 180 degrees, a field's text is empty, and no document ends
\* in an error record for it.
C7_EngineFallback ==
    tesseract = "missing" =>
        /\ pc = "detect" =>
              score_0 = Zero /\ score_180 = Zero /\ img_rotation \in {0, 90}
        /\ (pc = "fields" /\ fstate = "ATTEMPT1") => text_attempt1 = << >>
        /\ \A k \in 1..Len(results) :
              results[k] # unexpected_error(files[k], "tesseract is not installed")

\* C8: a document with a placeholder region for an empty crop has its other
\* fields read and its record decided by its final check.
C8_PlaceholderKeepsDocument ==
    (/\ DocDone /\ tesseract = "installed"
     /\ \E f \in DOMAIN cropped_image_paths : cropped_image_paths[f] = "placeholder")
        => LoopDone

C10_ExpectedKeys ==
    LET detected == DOMAIN cropped_image_paths
    IN  IF doc_type = "passport"
        THEN (detected \ {"surname"})
             \cup (IF detected \cap {"name", "surname"} # {} THEN {"name"} ELSE {})
        ELSE detected

\* C10: the field results of a record hold exactly the fields that have a
\* region (for the passport's merged name: when name or surname has one).
C10_ResultsMatchRegions ==
    (DocDone /\ "ocr_results" \in DOMAIN LastRecord) =>
        DOMAIN LastRecord.ocr_results = C10_ExpectedKeys

\* C11: every correction function gives the same text when it is applied to
\* its own result, and the name cleaner gives "John Doe" for
\* "John   Doe123!!", applied once or twice.
C11_Idempotent ==
    /\ calls = 2 => ret = Apply(fn, arg)
    /\ (fn = "clean_name_field" /\ arg = JohnDoe /\ calls >= 1) =>
          ret = << "J", "o", "h", "n", " ", "D", "o", "e" >>

\* a part with its leading digit replaced and every other character kept
C12_Lead(part, len, from, to) ==
    IF Len(part) = len /\ part[1] = from THEN [part EXCEPT ![1] = to] ELSE part

C12_Day(part) ==
    C12_Lead(C12_Lead(C12_Lead(part, 2, "4", "1"), 2, "9", "2"), 2, "6", "0")

C12_Month(part) ==
    IF Len(part) = 2 /\ part[2] \in { "0", "1", "2" }
    THEN C12_Lead(part, 2, "4", "1") ELSE part

C12_Year(part) ==
    C12_Lead(C12_Lead(C12_Lead(part, 4, "4", "1"), 4, "7", "1"), 4, "9", "2")

\* C12: for a text of three parts correct_date_string replaces only the leading
\* digit of a part (day 4->1, 9->2, 6->0; month 4->1 before 0, 1 or 2; year
\* 4->1, 7->1, 9->2) and keeps every other character and the length of each
\* part: "41/01/1990" gives "11/01/1990" and "02/02/7995" gives "02/02/1995".
C12_DateHeuristic ==
    (fn = "correct_date_string" /\ calls = 1) =>
        /\ count(arg, "/") = 2 =>
              LET parts == split(strip(arg), "/")
              IN  ret = C12_Day(parts[1]) \o << "/" >> \o C12_Month(parts[2])
                           \o << "/" >> \o C12_Year(parts[3])
        /\ arg = Date41 =>
              ret = << "1", "1", "/", "0", "1", "/", "1", "9", "9", "0" >>
        /\ arg = Date7995 =>
              ret = << "0", "2", "/", "0", "2", "/", "1", "9", "9", "5" >>

\* the text whose positions a positional corrector corrects: the argument, for
\* the passport number after cleaning, for the voter ID without its separators
C13_Corrected(f, x) ==
    CASE f = "apply_pan_corrections" -> x
      [] f = "apply_passport_corrections" ->
            LET cleaned == clean_id_text(strip(x))
            IN  IF cleaned # << >> /\ cleaned[1] = "$"
                THEN << "S" >> \o Tail(cleaned) ELSE cleaned
      [] f = "correct_and_reformat_voter_id" -> remove(x, "/")

\* the positions of that text where the layout expects a letter
C13_LetterPositions(f, t) ==
    CASE f = "apply_pan_corrections" ->
            IF Len(t) = 10 THEN (1..5) \cup {10} ELSE {}
      [] f = "apply_passport_corrections" -> IF Len(t) = 8 THEN {1} ELSE {}
      [] f = "correct_and_reformat_voter_id" ->
            IF Len(t) = 10 THEN 1..3 ELSE IF Len(t) = 13 THEN 1..2 ELSE {}

\* C13: no positional corrector turns a '1' at a letter position into 'I', it
\* leaves the '1'; the alphabetic table is the numeric table inverted, without
\* the pair I/1.
C13_OneIsKept ==
    /\ ALPHA_CORRECTIONS =
          [d \in { "0", "2", "4", "5", "8", "6" } |->
              CASE d = "0" -> "O" [] d = "2" -> "Z" [] d = "4" -> "A"
                [] d = "5" -> "S" [] d = "8" -> "B" [] d = "6" -> "G"]
    /\ \A c \in (DOMAIN NUMERIC_CORRECTIONS) \ { "I" } :
          ALPHA_CORRECTIONS[NUMERIC_CORRECTIONS[c]] = c
    /\ NUMERIC_CORRECTIONS["I"] = "1" /\ "1" \notin DOMAIN ALPHA_CORRECTIONS
    /\ (fn \in PositionalCorrectors /\ calls = 1) =>
          LET in  == C13_Corrected(fn, arg)
              out == IF fn = "correct_and_reformat_voter_id"
                     THEN remove(ret, "/") ELSE ret
          IN  \A p \in C13_LetterPositions(fn, in) :
                 /\ in[p] = "1" => out[p] = "1"
                 /\ isdigit(in[p]) => out[p] # "I"

\* C13: a PAN text with '1' and '8' at its first two positions came back with
\* the '1' kept and the '8' turned into 'B'
C13_Witness ==
    /\ fn = "apply_pan_corrections" /\ calls = 1 /\ Len(arg) = 10
    /\ arg[1] = "1" /\ arg[2] = "8"
    /\ ret[1] = "1" /\ ret[2] = "B"

\* C14: apply_pan_corrections keeps the length; in a text of 10 characters it
\* changes a digit at positions 1-5 or 10 into its mapped letter and a letter at
\* positions 6-9 into its mapped digit, and nothing else, so that a text of 5
\* letters, 4 digits and a letter comes back unchanged; a text of another
\* length comes back unchanged.
C14_PanPositions ==
    (fn = "apply_pan_corrections" /\ calls = 1) =>
        /\ Len(ret) = Len(arg)
        /\ Len(arg) # 10 => ret = arg
        /\ Len(arg) = 10 =>
              /\ \A p \in 1..10 :
                    ret[p] =
                       IF p \in (1..5) \cup {10} /\ arg[p] \in DOMAIN ALPHA_CORRECTIONS
                       THEN ALPHA_CORRECTIONS[arg[p]]
                       ELSE IF p \in 6..9 /\ arg[p] \in DOMAIN NUMERIC_CORRECTIONS
                       THEN NUMERIC_CORRECTIONS[arg[p]]
                       ELSE arg[p]
              /\ \A p \in 1..10 :
                    ret[p] # arg[p] =>
                       IF p \in 6..9 THEN isalpha(arg[p]) /\ isdigit(ret[p])
                       ELSE isdigit(arg[p]) /\ isalpha(ret[p])
              /\ ((\A p \in (1..5) \cup {10} : isalpha(arg[p]))
                    /\ (\A p \in 6..9 : isdigit(arg[p]))) => ret = arg
        /\ arg = ValidPan => ret = ValidPan

\* C14: a PAN text with '8' for 'B' and 'I' for '1' came back as ABCDE1234F
C14_Witness ==
    /\ fn = "apply_pan_corrections" /\ calls = 1 /\ Len(arg) = 10
    /\ arg[2] = "8" /\ arg[6] = "I"
    /\ ret = ValidPan

\* a text with its first lead characters corrected to letters and the others
\* to digits
C15_ByPosition(t, lead) ==
    [p \in 1..Len(t) |->
        IF p <= lead
        THEN (IF t[p] \in DOMAIN ALPHA_CORRECTIONS THEN ALPHA_CORRECTIONS[t[p]] ELSE t[p])
        ELSE (IF t[p] \in DOMAIN NUMERIC_CORRECTIONS
              THEN NUMERIC_CORRECTIONS[t[p]] ELSE t[p])]

\* C15: for a text of 10 or 13 characters without its separators,
\* correct_and_reformat_voter_id corrects the 3 or 2 leading letters and the
\* digits after them by position and groups the result as 3+7 or 2+2+3+6
\* exactly when the text had a separator; any other text comes back as it is.
C15_VoterReformat ==
    (fn = "correct_and_reformat_voter_id" /\ calls = 1) =>
        LET t   == remove(arg, "/")
            sep == \E k \in 1..Len(arg) : arg[k] = "/"
        IN  /\ Len(t) = 10 =>
                  LET c == C15_ByPosition(t, 3)
                  IN  ret = IF sep
                            THEN SubSeq(c, 1, 3) \o << "/" >> \o SubSeq(c, 4, 10)
                            ELSE c
            /\ Len(t) = 13 =>
                  LET c == C15_ByPosition(t, 2)
                  IN  ret = IF sep
                            THEN SubSeq(c, 1, 2) \o << "/" >> \o SubSeq(c, 3, 4)
                                    \o << "/" >> \o SubSeq(c, 5, 7)
                                    \o << "/" >> \o SubSeq(c, 8, 13)
                            ELSE c
            /\ Len(t) \notin { 10, 13 } => ret = arg
            /\ arg = VoterNewSep => ret = VoterNewSep

\* C15: a text of the 13-character layout with separators, '8' for a leading
\* letter and 'I' for a digit, came back corrected and grouped as 2+2+3+6
C15_Witness ==
    /\ fn = "correct_and_reformat_voter_id" /\ calls = 1 /\ Len(arg) = 16
    /\ arg[1] = "8" /\ arg[4] = "I"
    /\ ret = << "B", "B", "/", "1", "2", "/", "3", "4", "5", "/",
                "6", "7", "8", "9", "0", "1" >>

\* C16: once the orientation is settled, the image was turned by 180 degrees
\* (on top of the baseline turn by 90) exactly when score_180 is strictly
\* greater than score_0: with 40 against 75 it was turned, with a tie it was
\* not, and with the OCR engine missing both scores are 0 and it was not.
C16_StrictlyGreater ==
    pc = "detect" =>
        /\ img_rotation \in { 0, 90, 180, 270 }
        /\ img_rotation >= 180 <=>
              score_180[1] * score_0[2] > score_0[1] * score_180[2]
        /\ (score_0 = << 40, 1 >> /\ score_180 = << 150, 2 >>) => img_rotation >= 180
        /\ score_0 = score_180 => img_rotation < 180
        /\ tesseract = "missing" =>
              score_0 = << 0, 1 >> /\ score_180 = << 0, 1 >> /\ img_rotation < 180

\* C16: with the scores 40 and 75 (the mean of 90 and 60) an image already
\* turned by 90 degrees was turned by 180 more
C16_Witness ==
    /\ pc = "detect"
    /\ score_0 = << 40, 1 >> /\ score_180 = << 150, 2 >>
    /\ img_rotation = 270

=============================================================================
